---- MODULE Spec2Model ----
(***************************************************************************)
(* Model of insert-coin (src/src/insert-coin.ts): a client-side paywall.   *)
(* InsertCoin.create fetches the Ark operator's identity, verifies that    *)
(* the recipient address belongs to it and opens a wallet and a swap      *)
(* coordinator; requestInvoice / waitForPayment / requestPayment drive a   *)
(* reverse submarine swap and sweep the wallet to the recipient.          *)
(*                                                                         *)
(* Strings that the code inspects character by character (the signer key,  *)
(* the hex encoding of the address's operator key) are sequences of        *)
(* one-character strings; an Ark address is the sequence                   *)
(* <<hrp, operator key byte, vtxo key byte>>.  The collaborators (fetch,   *)
(* ArkAddress, Wallet, ArkadeLightning) are the environment: each of their *)
(* answers is a nondeterministic choice.                                   *)
(***************************************************************************)
EXTENDS Integers, Sequences, FiniteSets, TLC

\* ---------------------------------------------------------------- bounds
\* number of caller flows that may run on the one Orchestrator
NumFlows == 2
\* largest amount (sats) a caller requests; the coordinator may grant one more
MaxAmount == 1
\* largest balance a wallet opened with a caller-supplied key may already hold
MaxInitBalance == 1

\* longest signer key string handed to a standalone verifyArkAddress
MaxSignerLen == 3

\* the amounts handed to a standalone requestInvoice are the fractions n/d with
\* |n| <= MaxNumerator and 1 <= d <= MaxDenominator, and NaN
MaxNumerator == 12
MaxDenominator == 4

\* ------------------------------------------------------------ JS values
\* an absent optional field (undefined)
Undefined == "<undefined>"
\* no error has been thrown
NoError == <<>>

\* a JS number as the fraction <<n, d>> with d >= 1; NaN is <<0, 0>>
NaN == <<0, 0>>
IsNaN(x) == x[2] = 0
\* `!x` on a number: true on 0 and on NaN
Falsy(x) == IsNaN(x) \/ x[1] = 0
\* `x <= 0`: false on NaN
LeqZero(x) == ~IsNaN(x) /\ x[1] <= 0
\* Number.isInteger(x) && x > 0
IsPositiveInteger(x) == ~IsNaN(x) /\ x[1] > 0 /\ x[1] % x[2] = 0

\* `x || ""` of src/src/insert-coin.ts:109
OrEmpty(x) == IF x = Undefined THEN "" ELSE x

\* String.prototype.includes on sequences of characters
Includes(s, sub) ==
    \E i \in 0..(Len(s) - Len(sub)) : SubSeq(s, i + 1, i + Len(sub)) = sub

HexChars ==
    <<"0", "1", "2", "3", "4", "5", "6", "7", "8", "9", "a", "b", "c", "d", "e", "f">>

\* hex.encode of @scure/base: two lower-case hex digits per byte
HexEncode(bytes) ==
    [i \in 1..(2 * Len(bytes)) |->
        LET b == bytes[(i + 1) \div 2]
        IN  IF i % 2 = 1 THEN HexChars[(b \div 16) + 1] ELSE HexChars[(b % 16) + 1]]

\* ------------------------------------------------------------ addresses
AddrA == <<"ark", 171, 7>>
AddrB == <<"tark", 205, 9>>
\* wrong human-readable part
AddrBadHrp == <<"btc", 171, 7>>
\* payload too short
AddrShort == <<"ark", 171>>
EmptyAddr == <<>>

\* ArkAddress.decode: the operator key embedded in a well-formed address
DecodeOk(addr) ==
    /\ Len(addr) = 3
    /\ addr[1] \in {"ark", "tark"}
    /\ addr[2] \in 0..255
    /\ addr[3] \in 0..255

ServerPubKeyOf(addr) == <<addr[2]>>

ErrInvalidAddress == <<"Invalid address">>
ErrNotBelongs == <<"Ark address doesn't belong to server's pubkey">>

\* variant: the includes test of line 47 left out
VerifyArkAddress_NoCheck(signerPubkey, arkAddress) ==
    IF ~DecodeOk(arkAddress) THEN ErrInvalidAddress ELSE NoError

\* variant: the signer key compared before the address is decoded
VerifyArkAddress_MismatchFirst(signerPubkey, arkAddress) ==
    IF ~DecodeOk(arkAddress) /\ signerPubkey = <<>> THEN ErrInvalidAddress
    ELSE IF ~DecodeOk(arkAddress) THEN ErrNotBelongs
    ELSE IF ~Includes(signerPubkey, HexEncode(ServerPubKeyOf(arkAddress)))
         THEN ErrNotBelongs
         ELSE NoError

\* variant: startsWith in place of includes
VerifyArkAddress_Prefix(signerPubkey, arkAddress) ==
    IF ~DecodeOk(arkAddress) THEN ErrInvalidAddress
    ELSE IF Len(signerPubkey) < 2
            \/ SubSeq(signerPubkey, 1, 2) # HexEncode(ServerPubKeyOf(arkAddress))
         THEN ErrNotBelongs
         ELSE NoError

\* variant: equality in place of includes
VerifyArkAddress_Exact(signerPubkey, arkAddress) ==
    IF ~DecodeOk(arkAddress) THEN ErrInvalidAddress
    ELSE IF signerPubkey # HexEncode(ServerPubKeyOf(arkAddress)) THEN ErrNotBelongs
    ELSE NoError

\* variant: nothing is verified
VerifyArkAddress_Never(signerPubkey, arkAddress) == NoError

\* verifyArkAddress: NoError when it returns, else the error it throws
verifyArkAddress(signerPubkey, arkAddress) ==
    IF ~DecodeOk(arkAddress) THEN ErrInvalidAddress
    ELSE IF ~Includes(signerPubkey, HexEncode(ServerPubKeyOf(arkAddress)))
         THEN ErrNotBelongs
         ELSE NoError

\* ------------------------------------------------------ InsertCoin.create
ArkUrl == "https://ark.example"
BoltzUrl == "https://boltz.example"
GoodKey == "a1b2"
\* not a hex string: SingleKey.fromHex throws on it
BadKey == "zz"

ErrUrlRequired == <<"Ark server URL is required">>
ErrBoltzRequired == <<"Boltz API URL is required">>
ErrAddressRequired == <<"Ark address is required">>
ErrNoNetwork == <<"Failed to get network from server">>
ErrNoSigner == <<"Failed to get signer pubkey">>
ErrFetchRejected == <<"fetch failed">>
ErrBadPrivateKey == <<"invalid private key">>
ErrWalletCreate == <<"Wallet.create failed">>
ErrFetchPrefix == "Failed to fetch server info: "

CreateOptions ==
    [arkAddress : {EmptyAddr, AddrShort, AddrA, AddrB},
     arkServerUrl : {"", ArkUrl},
     boltzApiUrl : {"", BoltzUrl},
     privateKey : {Undefined, GoodKey, BadKey},
     referralId : {Undefined, "ref"}]

\* what the operator info endpoint may answer: the signer key as a string
SignerKeys == {<<>>, <<"0", "2">> \o HexEncode(<<171>>), <<"a", "c", "b">>}

Networks == {"", "bitcoin"}

FetchResponses ==
    [rejected : {TRUE}, ok : {FALSE}, statusText : {""}, signerPubkey : {<<>>},
     network : {""}]
    \cup [rejected : {FALSE}, ok : {FALSE}, statusText : {"Not Found", "Bad Gateway"},
          signerPubkey : {<<>>}, network : {""}]
    \cup [rejected : {FALSE}, ok : {TRUE}, statusText : {"OK"}, signerPubkey : SignerKeys,
          network : Networks]

\* variant: arkAddress tested first, arkServerUrl last
ValidateOptions_AddressFirst(o) ==
    IF o.arkAddress = EmptyAddr THEN ErrAddressRequired
    ELSE IF o.boltzApiUrl = "" THEN ErrBoltzRequired
    ELSE IF o.arkServerUrl = "" THEN ErrUrlRequired
    ELSE NoError

\* variant: the boltzApiUrl test of line 112 left out
ValidateOptions_SkipBoltz(o) ==
    IF o.arkServerUrl = "" THEN ErrUrlRequired
    ELSE IF o.arkAddress = EmptyAddr THEN ErrAddressRequired
    ELSE NoError

\* the required options, in the order the code tests them (lines 111-113)
ValidateOptions(o) ==
    IF o.arkServerUrl = "" THEN ErrUrlRequired
    ELSE IF o.boltzApiUrl = "" THEN ErrBoltzRequired
    ELSE IF o.arkAddress = EmptyAddr THEN ErrAddressRequired
    ELSE NoError

\* variant: the message without res.statusText
getServerInfo_NoStatus(res) ==
    IF res.rejected THEN ErrFetchRejected
    ELSE IF ~res.ok THEN <<ErrFetchPrefix, "">>
    ELSE NoError

\* getServerInfo: the error it throws on response res, NoError when it returns
getServerInfo(res) ==
    IF res.rejected THEN ErrFetchRejected
    ELSE IF ~res.ok THEN <<ErrFetchPrefix, res.statusText>>
    ELSE NoError

\* variant: the network test of line 117 left out
CheckServerInfo_SignerOnly(res) ==
    IF res.signerPubkey = <<>> THEN ErrNoSigner ELSE NoError

\* the checks of the fetched identity (lines 117-118)
CheckServerInfo(res) ==
    IF res.network = "" THEN ErrNoNetwork
    ELSE IF res.signerPubkey = <<>> THEN ErrNoSigner
    ELSE NoError

VARIABLES
    cpc,        \* where InsertCoin.create stands
    copts,      \* the options create was called with
    cerr,       \* the error create rejected with, NoError if none
    cres,       \* the response fetch gave to getServerInfo
    calls,      \* how often create reached each collaborator
    ic          \* the InsertCoin instance create resolved to

NoOptions ==
    [arkAddress |-> EmptyAddr, arkServerUrl |-> "", boltzApiUrl |-> "",
     privateKey |-> Undefined, referralId |-> Undefined]

NoResponse ==
    [rejected |-> FALSE, ok |-> FALSE, statusText |-> "", signerPubkey |-> <<>>,
     network |-> ""]

NoInstance ==
    [exists |-> FALSE, arkAddress |-> EmptyAddr, arkServerUrl |-> "", boltzApiUrl |-> "",
     network |-> "", privateKey |-> "", signerPubkey |-> <<>>]

NoCalls ==
    [fetch |-> 0, verify |-> 0, provider |-> 0, identity |-> 0, wallet |-> 0,
     lightning |-> 0]

\* SingleKey.fromHex(privateKey) / SingleKey.fromRandomBytes() (lines 131-133):
\* the error thrown, NoError when an identity is made
MakeIdentity(privateKey) ==
    IF privateKey # "" /\ privateKey = BadKey THEN ErrBadPrivateKey ELSE NoError

\* what Wallet.create may answer: a wallet holding `balance`, or a rejection.
\* A wallet on a fresh random key holds nothing.
WalletAnswers(privateKey) ==
    [ok : {FALSE}, balance : {0}]
    \cup [ok : {TRUE},
          balance : IF privateKey = "" THEN {0} ELSE 0..MaxInitBalance]

\* the instance the private constructor builds (lines 148-157, 72-79)
NewInsertCoin(o, res) ==
    [exists |-> TRUE, arkAddress |-> o.arkAddress, arkServerUrl |-> o.arkServerUrl,
     boltzApiUrl |-> o.boltzApiUrl, network |-> res.network,
     privateKey |-> OrEmpty(o.privateKey), signerPubkey |-> res.signerPubkey]

\* ------------------------------------------- invoices, claims and sweeps
Flows == 1..NumFlows
\* a null pendingSwap
NullHandle == 0

ErrAmountZero == <<"Amount must be greater than zero">>
ErrAmountUndefined == <<"Amount must be defined">>
ErrOnInvoice == <<"onInvoice callback is required">>
ErrOnPayment == <<"onPayment callback is required">>
ErrExpiry == <<"Invalid expiry in result">>
ErrInvoice == <<"Invalid invoice in result">>
ErrPreimage == <<"Invalid preimage in result">>
ErrPendingSwap == <<"Invalid pendingSwap in result">>
ErrAmountResult == <<"Invalid amount in result">>
ErrSwapRequired == <<"pendingSwap is required">>
ErrReceive == <<"Failed to receive coin">>
ErrNoBalance == <<"No balance available to send">>
\* errors thrown by the collaborators and by the caller's callbacks
ErrCreateInvoice == <<"createLightningInvoice rejected">>
ErrClaim == <<"waitAndClaim rejected">>
ErrGetBalance == <<"getBalance rejected">>
ErrSend == <<"sendBitcoin rejected">>
ErrCallback == <<"callback threw">>

\* the spec's InvalidSwapResult: a postcondition on the coordinator's answer failed
InvalidSwapResult == {ErrExpiry, ErrInvoice, ErrPreimage, ErrPendingSwap, ErrAmountResult}

\* the amounts a caller passes: negative, zero and positive
AmountInputs == (0 - 1)..MaxAmount

\* a callback option: absent, a function that returns, a function that throws
Callbacks == {"absent", "returns", "throws"}

NoTxid == <<>>

\* what createLightningInvoice may answer
InvoiceResponses ==
    {r \in [rejected : {FALSE}, amount : 0..(MaxAmount + 1), expiry : {0, 1767225600},
            invoice : {"", "lnbc1"}, preimage : {"", "c0ffee"}, hasSwap : BOOLEAN] :
        \* at most one field missing, or all of them
        LET missing == (IF r.expiry = 0 THEN 1 ELSE 0) + (IF r.invoice = "" THEN 1 ELSE 0)
                       + (IF r.preimage = "" THEN 1 ELSE 0) + (IF r.hasSwap THEN 0 ELSE 1)
        IN  missing \in {0, 1, 4}}
    \cup [rejected : {TRUE}, amount : {0}, expiry : {0}, invoice : {""}, preimage : {""},
          hasSwap : {FALSE}]

NoInvoiceResponse ==
    [rejected |-> FALSE, amount |-> 0, expiry |-> 0, invoice |-> "", preimage |-> "",
     hasSwap |-> FALSE]

\* variant: zero let through
ValidateAmount_NegativeOnly(amountSats) ==
    IF amountSats < 0 THEN ErrAmountZero ELSE NoError

\* the check as the specification words it: amounts that are not whole numbers
\* are refused as well
ValidateAmountNumber_Integral(x) ==
    IF Falsy(x) \/ LeqZero(x) \/ ~IsPositiveInteger(x) THEN ErrAmountZero ELSE NoError

\* the check of amountSats in requestInvoice (lines 191-192) on any JS number
ValidateAmountNumber(x) ==
    IF Falsy(x) \/ LeqZero(x) THEN ErrAmountZero ELSE NoError

\* the same check on the whole numbers of sats the flows pass
ValidateAmount(amountSats) == ValidateAmountNumber(<<amountSats, 1>>)

\* variant: the amount test of line 207 left out
ValidateResult_NoAmount(r, amountSats) ==
    IF r.expiry = 0 THEN ErrExpiry
    ELSE IF r.invoice = "" THEN ErrInvoice
    ELSE IF r.preimage = "" THEN ErrPreimage
    ELSE IF ~r.hasSwap THEN ErrPendingSwap
    ELSE NoError

\* variant: the preimage test of line 205 left out
ValidateResult_NoPreimage(r, amountSats) ==
    IF r.expiry = 0 THEN ErrExpiry
    ELSE IF r.invoice = "" THEN ErrInvoice
    ELSE IF ~r.hasSwap THEN ErrPendingSwap
    ELSE IF r.amount > amountSats THEN ErrAmountResult
    ELSE NoError

\* the checks of the coordinator's answer in requestInvoice (lines 202-207)
ValidateResult(r, amountSats) ==
    IF r.expiry = 0 THEN ErrExpiry
    ELSE IF r.invoice = "" THEN ErrInvoice
    ELSE IF r.preimage = "" THEN ErrPreimage
    ELSE IF ~r.hasSwap THEN ErrPendingSwap
    ELSE IF r.amount > amountSats THEN ErrAmountResult
    ELSE NoError

\* the image tag of lines 210-212: the QR code of the invoice as a GIF blob,
\* referred to by the object URL number n that URL.createObjectURL registered
QrImage(invoice, n) ==
    <<"<img src=", "blob:", n, <<"GIF", "QR", invoice>>, " alt='QR Code' />">>
NoImage == <<>>

\* variant: invoice and preimage take each other's place
InvoiceRecord_Swapped(r, h, n) ==
    [amount |-> r.amount, expiry |-> r.expiry, invoice |-> r.preimage,
     preimage |-> r.invoice, pendingSwap |-> h, qrImage |-> QrImage(r.invoice, n)]

\* the record requestInvoice returns (lines 214-221); pendingSwap h
InvoiceRecord(r, h, n) ==
    [amount |-> r.amount, expiry |-> r.expiry, invoice |-> r.invoice,
     preimage |-> r.preimage, pendingSwap |-> h, qrImage |-> QrImage(r.invoice, n)]

NoRecord ==
    [amount |-> 0, expiry |-> 0, invoice |-> "", preimage |-> "",
     pendingSwap |-> NullHandle, qrImage |-> NoImage]

\* variant: both tests of the amount made before the tests of the callbacks
ValidatePayment_AmountFirst(amountSats, onInvoice, onPayment) ==
    IF amountSats = 0 THEN ErrAmountUndefined
    ELSE IF amountSats <= 0 THEN ErrAmountZero
    ELSE IF onInvoice = "absent" THEN ErrOnInvoice
    ELSE IF onPayment = "absent" THEN ErrOnPayment
    ELSE NoError

\* the checks of requestPayment's options (lines 256-260)
ValidatePayment(amountSats, onInvoice, onPayment) ==
    IF amountSats = 0 THEN ErrAmountUndefined
    ELSE IF onInvoice = "absent" THEN ErrOnInvoice
    ELSE IF onPayment = "absent" THEN ErrOnPayment
    ELSE IF amountSats <= 0 THEN ErrAmountZero
    ELSE NoError

\* variant: the handle test of line 301 left out
ValidateSwap_Any(pendingSwap) == NoError

\* the check of the handle in waitForPayment (line 301)
ValidateSwap(pendingSwap) ==
    IF pendingSwap = NullHandle THEN ErrSwapRequired ELSE NoError

\* variant: the txid test of line 305 left out
CheckClaim_Any(txid) == NoError

\* the check of the claim's result (line 305)
CheckClaim(txid) == IF txid = NoTxid THEN ErrReceive ELSE NoError

\* variant: a balance of one treated as none
CheckBalance_OffByOne(available) == IF available <= 1 THEN ErrNoBalance ELSE NoError

\* variant: the balance test of line 309 left out
CheckBalance_Any(available) == NoError

\* the check of the balance read (line 309)
CheckBalance(available) == IF available = 0 THEN ErrNoBalance ELSE NoError

\* variant: only the claimed amount is swept
SweepArgs_Claimed(inst, available, claimed) == [address |-> inst.arkAddress, amount |-> claimed]

\* variant: the sweep goes to another address
SweepArgs_Elsewhere(inst, available, claimed) == [address |-> AddrB, amount |-> available]

\* the arguments of sendBitcoin (lines 310-313)
SweepArgs(inst, available, claimed) == [address |-> inst.arkAddress, amount |-> available]

NoSend == [address |-> EmptyAddr, amount |-> 0]

\* variant: the sweep's txid is returned
ReturnedTxid_Sweep(claimTxid, sweepTxid) == sweepTxid

\* the txid waitForPayment returns (line 316)
ReturnedTxid(claimTxid, sweepTxid) == claimTxid

VARIABLES
    fl,         \* the caller flows: the call each one is in and its locals
    swaps,      \* the coordinator's reverse swaps, by handle
    opened,     \* the balance the wallet held when Wallet.create opened it
    balance,    \* the wallet's available balance
    swept,      \* the total that sendBitcoin delivered to the instance's arkAddress
    blobs,      \* the number of object URLs URL.createObjectURL registered
    vpc,        \* a standalone call of verifyArkAddress: "ready", "returned", "threw"
    vin,        \* its arguments
    vout,       \* the error it threw
    apc,        \* a standalone call of requestInvoice: "ready", "awaitInvoice", "threw"
    ain,        \* the JS number it was given as amountSats
    aout        \* the error it threw

createVars == <<cpc, copts, cerr, cres, calls, ic>>
flowVars == <<fl, swaps, balance, swept, blobs>>
verifyVars == <<vpc, vin, vout>>
amountVars == <<apc, ain, aout>>
vars == <<cpc, copts, cerr, cres, calls, ic, fl, swaps, opened, balance, swept, blobs,
          vpc, vin, vout, apc, ain, aout>>

NoFlow ==
    [pc |-> "idle", api |-> "none", amountSats |-> 0, onInvoice |-> "absent",
     onPayment |-> "absent", resp |-> NoInvoiceResponse, rec |-> NoRecord,
     issued |-> FALSE, pendingSwap |-> NullHandle, claimTxid |-> NoTxid,
     claimed |-> 0, available |-> 0, send |-> NoSend, sweepTxid |-> NoTxid,
     txid |-> NoTxid, shown |-> NoRecord, paid |-> NoTxid, err |-> NoError,
     log |-> <<>>, heard |-> <<>>]

NoSwap == [created |-> FALSE, amount |-> 0, txid |-> NoTxid]

\* ------------------------------------------------------------------ Init
Init ==
    /\ cpc = "idle"
    /\ copts = NoOptions
    /\ cerr = NoError
    /\ cres = NoResponse
    /\ calls = NoCalls
    /\ ic = NoInstance
    /\ fl = [f \in Flows |-> NoFlow]
    /\ swaps = [h \in Flows |-> NoSwap]
    /\ opened = 0
    /\ balance = 0
    /\ swept = 0
    /\ blobs = 0
    /\ vpc = "unused"
    /\ vin = [signerPubkey |-> <<>>, arkAddress |-> EmptyAddr]
    /\ vout = NoError
    /\ apc = "unused"
    /\ ain = NaN
    /\ aout = NoError

\* ------------------------------------------------------- create: actions
CreateFails(e, c) ==
    /\ cpc' = "failed"
    /\ cerr' = e
    /\ calls' = c

Bump(c, names) == [k \in DOMAIN c |-> IF k \in names THEN c[k] + 1 ELSE c[k]]

\* InsertCoin.create up to its first await: the options are validated and the
\* operator info endpoint is read (lines 108-116, 26)
CreateCall(o) ==
    /\ cpc = "idle"
    /\ copts' = o
    /\ LET e == ValidateOptions(o)
       IN  IF e # NoError
           THEN CreateFails(e, calls)
           ELSE /\ cpc' = "fetching"
                /\ cerr' = NoError
                /\ calls' = Bump(calls, {"fetch"})
    /\ UNCHANGED <<cres, ic, flowVars, opened, verifyVars, amountVars>>

\* fetch answers: getServerInfo returns or throws, the identity is checked, the
\* address is verified, the swap provider and the identity are made and
\* Wallet.create is called (lines 27-33, 116-139)
FetchReturns(res) ==
    /\ cpc = "fetching"
    /\ cres' = res
    /\ LET e1 == getServerInfo(res)
           e2 == CheckServerInfo(res)
           e3 == verifyArkAddress(res.signerPubkey, copts.arkAddress)
           e4 == MakeIdentity(OrEmpty(copts.privateKey))
       IN  IF e1 # NoError THEN CreateFails(e1, calls)
           ELSE IF e2 # NoError THEN CreateFails(e2, calls)
           ELSE IF e3 # NoError THEN CreateFails(e3, Bump(calls, {"verify"}))
           ELSE IF e4 # NoError THEN CreateFails(e4, Bump(calls, {"verify", "provider"}))
           ELSE /\ cpc' = "walletCreating"
                /\ cerr' = NoError
                /\ calls' = Bump(calls, {"verify", "provider", "identity", "wallet"})
    /\ UNCHANGED <<copts, ic, flowVars, opened, verifyVars, amountVars>>

\* Wallet.create answers: ArkadeLightning and the instance are built (lines 136-157)
WalletCreateReturns(w) ==
    /\ cpc = "walletCreating"
    /\ IF ~w.ok
       THEN /\ CreateFails(ErrWalletCreate, calls)
            /\ UNCHANGED <<ic, opened, balance>>
       ELSE /\ cpc' = "done"
            /\ cerr' = NoError
            /\ calls' = Bump(calls, {"lightning"})
            /\ ic' = NewInsertCoin(copts, cres)
            /\ opened' = w.balance
            /\ balance' = w.balance
    /\ UNCHANGED <<copts, cres, fl, swaps, swept, blobs, verifyVars, amountVars>>

\* -------------------------------------------------------- flows: actions
\* variant: the error is caught and the call returns
Fail_Swallowed(b, e) == [b EXCEPT !.pc = "done"]

Fail(b, e) == [b EXCEPT !.pc = "failed", !.err = e]

Logged(b, what) == [b EXCEPT !.log = Append(@, what)]

\* the answer of a collaborator that resumed flow b at an await
Heard(b, what) == [b EXCEPT !.heard = Append(@, what)]

\* a caller starts on flow f only after the flows before it have started
MayStart(f) ==
    /\ ic.exists
    /\ \A g \in Flows : g < f => fl[g].api # "none"

\* the handles the callers hold: those of the records requestInvoice returned
KnownHandles == {fl[g].rec.pendingSwap : g \in {x \in Flows : fl[x].issued}}

\* requestInvoice up to its await (lines 190-199)
StartInvoice(b) ==
    LET e == ValidateAmount(b.amountSats)
    IN  IF e # NoError
        THEN Fail(b, e)
        ELSE Logged([b EXCEPT !.pc = "awaitInvoice"], "createLightningInvoice")

\* variant: the wait is made on the last swap created, not on the handle passed
StartWait_LastInvoice(b, h) ==
    LET made == {x \in Flows : swaps[x].created}
        last == IF made = {} THEN h ELSE CHOOSE x \in made : \A y \in made : y <= x
        c == [b EXCEPT !.pendingSwap = last]
        e == ValidateSwap(h)
    IN  IF e # NoError
        THEN Fail(c, e)
        ELSE Logged([c EXCEPT !.pc = "awaitClaim"], "waitAndClaim")

\* waitForPayment up to its first await (lines 300-304)
StartWait(b, h) ==
    LET c == [b EXCEPT !.pendingSwap = h]
        e == ValidateSwap(h)
    IN  IF e # NoError
        THEN Fail(c, e)
        ELSE Logged([c EXCEPT !.pc = "awaitClaim"], "waitAndClaim")

\* variant: onPayment called without awaiting waitForPayment
AfterInvoice_PaysFirst(b) ==
    LET c == Logged([b EXCEPT !.shown = [b.rec EXCEPT !.pendingSwap = NullHandle]],
                    "onInvoice")
    IN  IF b.onInvoice = "throws"
        THEN Fail(c, ErrCallback)
        ELSE StartWait(Logged(c, "onPayment"), b.rec.pendingSwap)

\* variant: the whole record, pendingSwap included, handed to onInvoice
AfterInvoice_WithHandle(b) ==
    LET c == Logged([b EXCEPT !.shown = b.rec], "onInvoice")
    IN  IF b.onInvoice = "throws"
        THEN Fail(c, ErrCallback)
        ELSE StartWait(c, b.rec.pendingSwap)

\* variant: onInvoice not called
AfterInvoice_Silent(b) == StartWait(b, b.rec.pendingSwap)

\* variant: waitForPayment called without the handle of the record
AfterInvoice_NoHandle(b) ==
    LET c == Logged([b EXCEPT !.shown = [b.rec EXCEPT !.pendingSwap = NullHandle]],
                    "onInvoice")
    IN  IF b.onInvoice = "throws"
        THEN Fail(c, ErrCallback)
        ELSE StartWait(c, NullHandle)

\* variant: a throw of onInvoice is caught and the wait starts all the same
AfterInvoice_CatchesThrow(b) ==
    LET c == Logged([b EXCEPT !.shown = [b.rec EXCEPT !.pendingSwap = NullHandle]],
                    "onInvoice")
    IN  StartWait(c, b.rec.pendingSwap)

\* requestPayment between its two awaits: onInvoice is called with the public
\* fields and waitForPayment starts (lines 266-270)
AfterInvoice(b) ==
    LET c == Logged([b EXCEPT !.shown = [b.rec EXCEPT !.pendingSwap = NullHandle]],
                    "onInvoice")
    IN  IF b.onInvoice = "throws"
        THEN Fail(c, ErrCallback)
        ELSE StartWait(c, b.rec.pendingSwap)

\* requestPayment after waitForPayment returned: onPayment is called (line 273)
AfterPayment(b) ==
    LET c == Logged([b EXCEPT !.paid = b.txid], "onPayment")
    IN  IF b.onPayment = "throws"
        THEN Fail(c, ErrCallback)
        ELSE [c EXCEPT !.pc = "done"]

\* variant: requestInvoice reads the info endpoint and verifies the address again
RequestInvoiceCall_Reverify(f, amt) ==
    /\ MayStart(f)
    /\ fl[f].api = "none"
    /\ fl' = [fl EXCEPT ![f] =
                StartInvoice([@ EXCEPT !.api = "requestInvoice", !.amountSats = amt])]
    /\ calls' = Bump(calls, {"fetch", "verify"})
    /\ UNCHANGED <<cpc, copts, cerr, cres, ic, swaps, opened, balance, swept, blobs,
                   verifyVars, amountVars>>

\* a caller calls requestInvoice({amountSats})
RequestInvoiceCall(f, amt) ==
    /\ MayStart(f)
    /\ fl[f].api = "none"
    /\ fl' = [fl EXCEPT ![f] =
                StartInvoice([@ EXCEPT !.api = "requestInvoice", !.amountSats = amt])]
    /\ UNCHANGED <<createVars, swaps, opened, balance, swept, blobs, verifyVars, amountVars>>

\* a caller calls requestPayment({amountSats, onInvoice, onPayment}) (lines 255-264)
RequestPaymentCall(f, amt, oi, op) ==
    /\ MayStart(f)
    /\ fl[f].api = "none"
    /\ LET b == [fl[f] EXCEPT !.api = "requestPayment", !.amountSats = amt,
                              !.onInvoice = oi, !.onPayment = op]
           e == ValidatePayment(amt, oi, op)
       IN  fl' = [fl EXCEPT ![f] = IF e # NoError THEN Fail(b, e) ELSE StartInvoice(b)]
    /\ UNCHANGED <<createVars, swaps, opened, balance, swept, blobs, verifyVars, amountVars>>

\* a caller calls waitForPayment({pendingSwap}): on a fresh flow, or on the flow
\* whose requestInvoice has returned
WaitForPaymentCall(f, h) ==
    /\ MayStart(f)
    /\ \/ fl[f].api = "none"
       \/ fl[f].api = "requestInvoice" /\ fl[f].pc = "invoiceReturned"
    /\ h \in {NullHandle} \cup KnownHandles
    /\ fl' = [fl EXCEPT ![f] = StartWait([@ EXCEPT !.api = "waitForPayment"], h)]
    /\ UNCHANGED <<createVars, swaps, opened, balance, swept, blobs, verifyVars, amountVars>>

\* createLightningInvoice answers: the result is validated, the QR image is
\* made and the record is returned (lines 196-221); in requestPayment the flow
\* goes on to onInvoice and waitForPayment
CreateInvoiceReturns(f, r) ==
    /\ fl[f].pc = "awaitInvoice"
    /\ LET b == Heard([fl[f] EXCEPT !.resp = r], IF r.rejected THEN "rejected" ELSE "result")
           e == IF r.rejected THEN ErrCreateInvoice ELSE ValidateResult(r, b.amountSats)
           c == [b EXCEPT !.rec = InvoiceRecord(r, f, f)]
       IN  /\ swaps' = IF r.rejected
                       THEN swaps
                       ELSE [swaps EXCEPT ![f] = [created |-> TRUE, amount |-> r.amount,
                                                  txid |-> NoTxid]]
           /\ blobs' = IF e = NoError THEN blobs + 1 ELSE blobs
           /\ fl' = [fl EXCEPT ![f] =
                        IF e # NoError THEN Fail(b, e)
                        ELSE IF b.api = "requestInvoice"
                             THEN [c EXCEPT !.pc = "invoiceReturned", !.issued = TRUE]
                             ELSE AfterInvoice(c)]
    /\ UNCHANGED <<createVars, opened, balance, swept, verifyVars, amountVars>>

ClaimOutcomes == {"claimed", "notxid", "rejected"}

\* variant: a timer of the Orchestrator ends the wait
WaitAndClaimReturns_Deadline(f, out) ==
    /\ fl[f].pc = "awaitClaim"
    /\ out = "rejected"
    /\ fl' = [fl EXCEPT ![f] = Fail(@, <<"timed out">>)]
    /\ UNCHANGED <<createVars, swaps, opened, balance, swept, blobs, verifyVars, amountVars>>

\* variant: a claim that comes back without txid is waited on for ever
WaitAndClaimReturns_Hangs(f, out) ==
    /\ fl[f].pc = "awaitClaim"
    /\ LET h == fl[f].pendingSwap
           first == swaps[h].txid = NoTxid
           tx == IF out # "claimed" THEN NoTxid
                 ELSE IF first THEN <<"claim", h>> ELSE swaps[h].txid
           credit == IF out = "claimed" /\ first THEN swaps[h].amount ELSE 0
           b == Heard([fl[f] EXCEPT !.claimTxid = tx, !.claimed = credit], out)
       IN  /\ swaps' = IF out = "claimed" THEN [swaps EXCEPT ![h].txid = tx] ELSE swaps
           /\ balance' = balance + credit
           /\ fl' = [fl EXCEPT ![f] =
                        IF out = "rejected" THEN Fail(b, ErrClaim)
                        ELSE IF tx = NoTxid THEN [b EXCEPT !.pc = "suspended"]
                        ELSE Logged([b EXCEPT !.pc = "awaitBalance"], "getBalance")]
    /\ UNCHANGED <<createVars, opened, swept, blobs, verifyVars, amountVars>>

\* waitAndClaim answers: a first claim of a swap pays its amount into the
\* wallet; the result is checked and getBalance is called (lines 304-308)
WaitAndClaimReturns(f, out) ==
    /\ fl[f].pc = "awaitClaim"
    /\ LET h == fl[f].pendingSwap
           first == swaps[h].txid = NoTxid
           tx == IF out # "claimed" THEN NoTxid
                 ELSE IF first THEN <<"claim", h>> ELSE swaps[h].txid
           credit == IF out = "claimed" /\ first THEN swaps[h].amount ELSE 0
           b == Heard([fl[f] EXCEPT !.claimTxid = tx, !.claimed = credit], out)
           e == IF out = "rejected" THEN ErrClaim ELSE CheckClaim(tx)
       IN  /\ swaps' = IF out = "claimed" THEN [swaps EXCEPT ![h].txid = tx] ELSE swaps
           /\ balance' = balance + credit
           /\ fl' = [fl EXCEPT ![f] =
                        IF e # NoError
                        THEN Fail(b, e)
                        ELSE Logged([b EXCEPT !.pc = "awaitBalance"], "getBalance")]
    /\ UNCHANGED <<createVars, opened, swept, blobs, verifyVars, amountVars>>

\* getBalance answers: the balance is checked and sendBitcoin is called
\* (lines 308-313)
GetBalanceReturns(f, ok) ==
    /\ fl[f].pc = "awaitBalance"
    /\ LET b == Heard([fl[f] EXCEPT !.available = IF ok THEN balance ELSE 0],
                       IF ok THEN "balance" ELSE "rejected")
           e == IF ~ok THEN ErrGetBalance ELSE CheckBalance(b.available)
       IN  fl' = [fl EXCEPT ![f] =
                    IF e # NoError
                    THEN Fail(b, e)
                    ELSE Logged([b EXCEPT !.pc = "awaitSend",
                                          !.send = SweepArgs(ic, b.available, b.claimed)],
                                "sendBitcoin")]
    /\ UNCHANGED <<createVars, swaps, opened, balance, swept, blobs, verifyVars, amountVars>>

\* variant: a rejected sendBitcoin is tried a second time
SendBitcoinReturns_Retry(f, ok) ==
    /\ fl[f].pc = "awaitSend"
    /\ ok => fl[f].send.amount <= balance
    /\ IF ~ok
       THEN /\ fl' = [fl EXCEPT ![f] =
                        IF Cardinality({i \in DOMAIN @.log : @.log[i] = "sendBitcoin"}) < 2
                        THEN Logged(Heard(@, "rejected"), "sendBitcoin")
                        ELSE Fail(Heard(@, "rejected"), ErrSend)]
            /\ UNCHANGED <<balance, swept>>
       ELSE LET tx == <<"sweep", f>>
                b == Heard([fl[f] EXCEPT !.sweepTxid = tx,
                                         !.txid = ReturnedTxid(fl[f].claimTxid, tx)],
                           "sent")
            IN  /\ balance' = balance - b.send.amount
                /\ swept' = swept + (IF b.send.address = ic.arkAddress
                                     THEN b.send.amount ELSE 0)
                /\ fl' = [fl EXCEPT ![f] =
                            IF b.api = "requestPayment"
                            THEN AfterPayment(b)
                            ELSE [b EXCEPT !.pc = "done"]]
    /\ UNCHANGED <<createVars, swaps, opened, blobs, verifyVars, amountVars>>

\* sendBitcoin answers: the wallet pays out only what it holds; waitForPayment
\* returns the txid (line 316) and requestPayment calls onPayment (line 273)
SendBitcoinReturns(f, ok) ==
    /\ fl[f].pc = "awaitSend"
    /\ ok => fl[f].send.amount <= balance
    /\ IF ~ok
       THEN /\ fl' = [fl EXCEPT ![f] = Fail(Heard(@, "rejected"), ErrSend)]
            /\ UNCHANGED <<balance, swept>>
       ELSE LET tx == <<"sweep", f>>
                b == Heard([fl[f] EXCEPT !.sweepTxid = tx,
                                         !.txid = ReturnedTxid(fl[f].claimTxid, tx)],
                           "sent")
            IN  /\ balance' = balance - b.send.amount
                /\ swept' = swept + (IF b.send.address = ic.arkAddress
                                     THEN b.send.amount ELSE 0)
                /\ fl' = [fl EXCEPT ![f] =
                            IF b.api = "requestPayment"
                            THEN AfterPayment(b)
                            ELSE [b EXCEPT !.pc = "done"]]
    /\ UNCHANGED <<createVars, swaps, opened, blobs, verifyVars, amountVars>>

\* ------------------------------------------------------------------ Next
Next ==
    \/ \E o \in CreateOptions : CreateCall(o)
    \/ \E res \in FetchResponses : FetchReturns(res)
    \/ \E w \in WalletAnswers(OrEmpty(copts.privateKey)) : WalletCreateReturns(w)
    \/ \E f \in Flows, amt \in AmountInputs : RequestInvoiceCall(f, amt)
    \/ \E f \in Flows, amt \in AmountInputs, oi \in Callbacks, op \in Callbacks :
          RequestPaymentCall(f, amt, oi, op)
    \/ \E f \in Flows, h \in {NullHandle} \cup Flows : WaitForPaymentCall(f, h)
    \/ \E f \in Flows, r \in InvoiceResponses : CreateInvoiceReturns(f, r)
    \/ \E f \in Flows, out \in ClaimOutcomes : WaitAndClaimReturns(f, out)
    \/ \E f \in Flows, ok \in BOOLEAN : GetBalanceReturns(f, ok)
    \/ \E f \in Flows, ok \in BOOLEAN : SendBitcoinReturns(f, ok)

Spec == Init /\ [][Next]_vars

\* ------------------------------------------------- collaborators that answer
\* every promise a flow awaits is settled in the end: the coordinator answers
\* createLightningInvoice (line 196) and waitAndClaim (line 304), the wallet
\* answers getBalance (line 308) and sendBitcoin (line 310)
Fairness ==
    \A f \in Flows :
        /\ WF_vars(\E r \in InvoiceResponses : CreateInvoiceReturns(f, r))
        /\ WF_vars(\E out \in ClaimOutcomes : WaitAndClaimReturns(f, out))
        /\ WF_vars(\E ok \in BOOLEAN : GetBalanceReturns(f, ok))
        /\ WF_vars(\E ok \in BOOLEAN : SendBitcoinReturns(f, ok))

SpecFair == Spec /\ Fairness

\* ------------------------------------------ verifyArkAddress on its own
\* verifyArkAddress is exported and callable without an instance
VerifySigners == UNION {[1..k -> {"a", "b", "c"}] : k \in 0..MaxSignerLen}

MalformedAddrs == {EmptyAddr, AddrShort, AddrBadHrp}

VerifyAddrs == MalformedAddrs \cup {AddrA, <<"ark", 186, 1>>, <<"tark", 204, 2>>}

InitVerify ==
    /\ cpc = "idle"
    /\ copts = NoOptions
    /\ cerr = NoError
    /\ cres = NoResponse
    /\ calls = NoCalls
    /\ ic = NoInstance
    /\ fl = [f \in Flows |-> NoFlow]
    /\ swaps = [h \in Flows |-> NoSwap]
    /\ opened = 0
    /\ balance = 0
    /\ swept = 0
    /\ blobs = 0
    /\ vpc = "ready"
    /\ vin \in [signerPubkey : VerifySigners, arkAddress : VerifyAddrs]
    /\ vout = NoError
    /\ apc = "unused"
    /\ ain = NaN
    /\ aout = NoError

\* a call of verifyArkAddress(signerPubkey, arkAddress) (lines 45-50)
VerifyCall ==
    /\ vpc = "ready"
    /\ vout' = verifyArkAddress(vin.signerPubkey, vin.arkAddress)
    /\ vpc' = IF vout' = NoError THEN "returned" ELSE "threw"
    /\ UNCHANGED <<createVars, flowVars, opened, vin, amountVars>>

NextVerify == VerifyCall

SpecVerify == InitVerify /\ [][NextVerify]_vars

\* ------------------------------------- requestInvoice's amount on its own
\* amountSats is typed `number`: any JS number may arrive at lines 190-192
AmountNumbers ==
    {<<n, d>> : n \in (0 - MaxNumerator)..MaxNumerator, d \in 1..MaxDenominator}
    \cup {NaN}

InitAmount ==
    /\ cpc = "done"
    /\ copts = NoOptions
    /\ cerr = NoError
    /\ cres = NoResponse
    /\ calls = NoCalls
    /\ ic = NoInstance
    /\ fl = [f \in Flows |-> NoFlow]
    /\ swaps = [h \in Flows |-> NoSwap]
    /\ opened = 0
    /\ balance = 0
    /\ swept = 0
    /\ blobs = 0
    /\ vpc = "unused"
    /\ vin = [signerPubkey |-> <<>>, arkAddress |-> EmptyAddr]
    /\ vout = NoError
    /\ apc = "ready"
    /\ ain \in AmountNumbers
    /\ aout = NoError

\* requestInvoice({amountSats: ain}) up to its await: it throws, or it calls
\* createLightningInvoice with that amount (lines 190-199)
AmountCall ==
    /\ apc = "ready"
    /\ aout' = ValidateAmountNumber(ain)
    /\ apc' = IF aout' = NoError THEN "awaitInvoice" ELSE "threw"
    /\ UNCHANGED <<createVars, flowVars, opened, verifyVars, ain>>

NextAmount == AmountCall

SpecAmount == InitAmount /\ [][NextAmount]_vars

\* ================================================================ claims
\* flow f has reached the end of a successful waitForPayment
Settled(f) == fl[f].txid # NoTxid

\* createLightningInvoice has answered flow f with a result (not a rejection)
Answered(f) ==
    /\ fl[f].log # <<>>
    /\ fl[f].pc # "awaitInvoice"
    /\ fl[f].log[1] = "createLightningInvoice"
    /\ ~fl[f].resp.rejected

\* fetch has answered create
Fetched == calls.fetch > 0 /\ cpc # "fetching"

Count(log, what) == Cardinality({i \in DOMAIN log : log[i] = what})

\* C1: every instance create returns binds its address to the fetched signer
\* key (the key contains the hex of the operator key embedded in the address),
\* carries the options and the identity it was made from, and no later step of
\* requestInvoice, waitForPayment or requestPayment changes it.
C1_BindingKept ==
    /\ [](ic.exists =>
            /\ DecodeOk(ic.arkAddress)
            /\ Includes(ic.signerPubkey, HexEncode(<<ic.arkAddress[2]>>))
            /\ ic.arkAddress = copts.arkAddress
            /\ ic.signerPubkey = cres.signerPubkey
            /\ ic.network = cres.network)
    /\ [][ic.exists => ic' = ic]_vars

C1_Witness ==
    /\ ic.exists
    /\ \E f, g \in Flows :
          /\ fl[f].api = "requestPayment" /\ fl[f].pc = "done"
          /\ fl[g].api = "waitForPayment" /\ fl[g].pc = "done" /\ fl[g].issued

\* C2: a coordinator result granting more than amountSats makes requestInvoice
\* fail with an InvalidSwapResult error and nothing follows: no image, no record,
\* no callback, no wait and no claim; no record ever grants more than was asked.
C2_NoInflatedInvoice ==
    /\ \A f \in Flows :
        /\ (Answered(f) /\ fl[f].resp.amount > fl[f].amountSats) =>
              /\ fl[f].pc = "failed"
              /\ fl[f].err \in InvalidSwapResult
              /\ fl[f].rec = NoRecord
              /\ ~fl[f].issued
              /\ fl[f].shown = NoRecord
              /\ fl[f].log = <<"createLightningInvoice">>
              /\ swaps[f].txid = NoTxid
        /\ fl[f].rec # NoRecord => fl[f].rec.amount <= fl[f].amountSats
    /\ blobs = Cardinality({f \in Flows : fl[f].rec # NoRecord})

C2_Witness ==
    \E f \in Flows :
        /\ Answered(f)
        /\ fl[f].resp.amount > fl[f].amountSats
        /\ fl[f].resp.expiry # 0 /\ fl[f].resp.invoice # "" /\ fl[f].resp.preimage # ""
        /\ fl[f].resp.hasSwap
        /\ fl[f].err = ErrAmountResult

\* C3: a successful waitForPayment made exactly one sendBitcoin call, after the
\* claim and the balance read, for the whole available balance that getBalance
\* returned, to the arkAddress of the instance.
C3_SweepsWholeBalance ==
    \A f \in Flows :
        Settled(f) =>
            LET n == Len(fl[f].log)
                k == IF fl[f].paid # NoTxid THEN n - 1 ELSE n
            IN  /\ Count(fl[f].log, "sendBitcoin") = 1
                /\ k >= 3
                /\ SubSeq(fl[f].log, k - 2, k) = <<"waitAndClaim", "getBalance", "sendBitcoin">>
                /\ fl[f].send.amount = fl[f].available
                /\ fl[f].send.address = ic.arkAddress
                /\ fl[f].send.address = copts.arkAddress

C3_Witness ==
    \E f \in Flows :
        /\ Settled(f)
        /\ fl[f].api = "waitForPayment"
        /\ fl[f].claimed > 0
        /\ fl[f].send.amount > fl[f].claimed
        /\ fl[f].send.amount > fl[f].rec.amount

\* C4 as stated: the txid waitForPayment returns is the sweep transaction's,
\* not the one waitAndClaim returned.
C4_ReturnsSweepTxid ==
    \A f \in Flows :
        Settled(f) => fl[f].txid = fl[f].sweepTxid /\ fl[f].txid # fl[f].claimTxid

\* C4 as amended: the txid waitForPayment returns, and requestPayment hands to
\* onPayment, is the one waitAndClaim returned; the result of sendBitcoin is
\* dropped.
C4_ReturnsClaimTxid ==
    \A f \in Flows :
        /\ Settled(f) =>
              /\ fl[f].txid = fl[f].claimTxid
              /\ fl[f].txid = swaps[fl[f].pendingSwap].txid
              /\ fl[f].txid # fl[f].sweepTxid
              /\ fl[f].sweepTxid # NoTxid
        /\ fl[f].paid # NoTxid => Settled(f) /\ fl[f].paid = fl[f].claimTxid

C4_Witness ==
    \E f \in Flows :
        /\ fl[f].api = "requestPayment"
        /\ fl[f].pc = "done"
        /\ fl[f].paid = <<"claim", f>>
        /\ fl[f].sweepTxid = <<"sweep", f>>

\* flow f claimed funds into the wallet and then found none, or asked the
\* wallet to send more than it still holds
Starved(f) ==
    /\ fl[f].claimed > 0
    /\ \/ fl[f].err = ErrNoBalance
       \/ fl[f].pc = "awaitSend" /\ fl[f].send.amount > balance

\* flow g's sweep went through
Swept(g) == fl[g].sweepTxid # NoTxid

RECURSIVE ClaimedUpTo(_)
\* what the claims of flows 1..n paid into the wallet
ClaimedUpTo(n) == IF n = 0 THEN 0 ELSE fl[n].claimed + ClaimedUpTo(n - 1)

\* C5: flows on one instance share the wallet and nothing serialises them. The
\* wallet changes only by their claims and sweeps, so a flow that claimed
\* funds is starved (finds no balance, or is about to send more than is left)
\* only when another flow's sweep went through meanwhile; the witness is
\* the interleaving in which one flow's sweep carries both claims and the
\* other flow fails with no balance.
C5_StarvedByOtherSweep ==
    /\ opened + ClaimedUpTo(NumFlows) = balance + swept
    /\ \A f \in Flows :
          Starved(f) => \E g \in Flows \ {f} : Swept(g)

C5_Witness ==
    \E f, g \in Flows :
        /\ f # g
        /\ fl[f].claimed > 0 /\ fl[g].claimed > 0
        /\ fl[g].sweepTxid # NoTxid
        /\ fl[g].send.amount = opened + fl[f].claimed + fl[g].claimed
        /\ fl[f].err = ErrNoBalance
        /\ fl[f].pc = "failed"

\* the other outcome of the same race: both flows read the balance before
\* either sent, and the second send asks for more than is left
C5_OverSend ==
    \E f, g \in Flows :
        /\ f # g
        /\ fl[f].claimed > 0 /\ fl[g].claimed > 0
        /\ fl[g].sweepTxid # NoTxid
        /\ fl[f].pc = "awaitSend"
        /\ fl[f].send.amount > balance

\* create was called
Called == cpc # "idle"

\* create reached none of its collaborators
NothingMade == calls = NoCalls /\ ~ic.exists

\* C6 as stated: the required options are tested in the order arkAddress,
\* boltzApiUrl, arkServerUrl, and the first empty one in that order is reported.
C6_AddressFirst ==
    Called =>
        /\ copts.arkAddress = EmptyAddr => cerr = ErrAddressRequired
        /\ (copts.arkAddress # EmptyAddr /\ copts.boltzApiUrl = "") =>
              cerr = ErrBoltzRequired
        /\ (copts.arkAddress # EmptyAddr /\ copts.boltzApiUrl # ""
            /\ copts.arkServerUrl = "") => cerr = ErrUrlRequired

\* C6 as amended: the required options are tested in the order arkServerUrl,
\* boltzApiUrl, arkAddress, and the first empty one in that order is reported.
C6_ServerUrlFirst ==
    Called =>
        /\ copts.arkServerUrl = "" => cerr = ErrUrlRequired
        /\ (copts.arkServerUrl # "" /\ copts.boltzApiUrl = "") =>
              cerr = ErrBoltzRequired
        /\ (copts.arkServerUrl # "" /\ copts.boltzApiUrl # ""
            /\ copts.arkAddress = EmptyAddr) => cerr = ErrAddressRequired

C6_Witness ==
    /\ cpc = "failed"
    /\ copts.arkAddress = EmptyAddr
    /\ copts.boltzApiUrl = ""
    /\ copts.arkServerUrl = ""
    /\ cerr = ErrUrlRequired

\* the number of required options that are empty
EmptyCount(o) ==
    Cardinality({k \in {"arkAddress", "arkServerUrl", "boltzApiUrl"} :
                    o[k] = IF k = "arkAddress" THEN EmptyAddr ELSE ""})

\* C7: with exactly one of arkAddress, arkServerUrl, boltzApiUrl empty, create
\* rejects with that option's own message, before the info endpoint is read
\* and without a wallet, a swap provider or an instance being made.
C7_OneEmptyOption ==
    (Called /\ EmptyCount(copts) = 1) =>
        /\ cpc = "failed"
        /\ NothingMade
        /\ copts.arkAddress = EmptyAddr => cerr = ErrAddressRequired
        /\ copts.arkServerUrl = "" => cerr = ErrUrlRequired
        /\ copts.boltzApiUrl = "" => cerr = ErrBoltzRequired

C7_Witness ==
    /\ cpc = "failed"
    /\ copts.arkAddress = AddrA
    /\ copts.arkServerUrl = ArkUrl
    /\ copts.boltzApiUrl = ""
    /\ cerr = ErrBoltzRequired
    /\ calls.fetch = 0

\* C8: when the info endpoint answers with a response that is not ok, create
\* fails with "Failed to fetch server info: " followed by the status text, after
\* one read, without verifying the address and without a wallet, a swap
\* provider or an instance.
C8_FetchNotOk ==
    (Fetched /\ ~cres.rejected /\ ~cres.ok) =>
        /\ cpc = "failed"
        /\ cerr = <<"Failed to fetch server info: ", cres.statusText>>
        /\ calls = [NoCalls EXCEPT !.fetch = 1]
        /\ ~ic.exists

C8_Witness ==
    /\ cpc = "failed"
    /\ cres.statusText = "Not Found"
    /\ cerr = <<"Failed to fetch server info: ", "Not Found">>
    /\ calls.fetch = 1

\* C9: when the fetched identity has an empty network or an empty signer key,
\* create fails with the matching message ("Failed to get network from
\* server", else "Failed to get signer pubkey") before the address is verified
\* and before a wallet or a swap provider is made.
C9_IncompleteServerInfo ==
    (Fetched /\ cres.ok /\ (cres.network = "" \/ cres.signerPubkey = <<>>)) =>
        /\ cpc = "failed"
        /\ cerr = IF cres.network = "" THEN ErrNoNetwork ELSE ErrNoSigner
        /\ calls = [NoCalls EXCEPT !.fetch = 1]
        /\ ~ic.exists

C9_Witness ==
    /\ cpc = "failed"
    /\ cres.ok
    /\ cres.network = ""
    /\ cres.signerPubkey # <<>>
    /\ copts.arkAddress = AddrShort
    /\ cerr = ErrNoNetwork

\* C10: on an address that does not decode, verifyArkAddress throws the
\* decoder's "Invalid address" whatever the signer key is: never the mismatch
\* error, never a return.
C10_InvalidAddress ==
    (vpc # "ready" /\ vin.arkAddress \in MalformedAddrs) =>
        /\ vpc = "threw"
        /\ vout = ErrInvalidAddress

C10_Witness ==
    /\ vpc = "threw"
    /\ vin.arkAddress = AddrBadHrp
    /\ vin.signerPubkey = <<"a", "b">>
    /\ vout = ErrInvalidAddress

\* s[i+1 .. i+Len(sub)] spelled character by character
OccursAt(s, sub, i) ==
    /\ i + Len(sub) <= Len(s)
    /\ \A k \in 1..Len(sub) : s[i + k] = sub[k]

\* the signer key string contains the two hex digits of the operator key byte
\* embedded in the address
ContainsOperatorKey(signer, addr) ==
    \E i \in 0..Len(signer) :
        OccursAt(signer, <<HexChars[(addr[2] \div 16) + 1], HexChars[(addr[2] % 16) + 1]>>, i)

\* C11: on every address that decodes, verifyArkAddress returns exactly when the
\* signer key string contains the hex encoding of the operator key embedded in
\* the address, and throws "Ark address doesn't belong to server's pubkey"
\* otherwise.
C11_VerifyIffContains ==
    (vpc # "ready" /\ DecodeOk(vin.arkAddress)) =>
        /\ vpc = "returned" <=> ContainsOperatorKey(vin.signerPubkey, vin.arkAddress)
        /\ vpc = "returned" => vout = NoError
        /\ vpc # "returned" => vpc = "threw" /\ vout = ErrNotBelongs

C11_Witness ==
    /\ vpc = "returned"
    /\ vin.arkAddress = AddrA
    /\ vin.signerPubkey = <<"c", "a", "b">>

\* the other side of C11: a decodable address whose key the signer lacks
C11_Mismatch ==
    /\ vpc = "threw"
    /\ vin.arkAddress = AddrA
    /\ vin.signerPubkey = <<"b", "a", "c">>
    /\ vout = ErrNotBelongs

\* the three required options are non-empty and the address decodes
WellFormedOptions(o) ==
    /\ o.arkServerUrl # ""
    /\ o.boltzApiUrl # ""
    /\ o.arkAddress # EmptyAddr
    /\ DecodeOk(o.arkAddress)

\* the info endpoint answered ok with a signer key that contains the operator
\* key of the address create was called with
MatchingIdentity ==
    /\ Fetched
    /\ ~cres.rejected
    /\ cres.ok
    /\ WellFormedOptions(copts)
    /\ ContainsOperatorKey(cres.signerPubkey, copts.arkAddress)

C12_NoOptionals ==
    /\ cpc = "done"
    /\ ic.exists
    /\ copts.privateKey = Undefined
    /\ copts.referralId = Undefined

\* why C12 fails as stated: a matching signer key, and create rejects
C12_RejectedAnyway ==
    /\ MatchingIdentity
    /\ cpc = "failed"
    /\ cerr \in {ErrNoNetwork, ErrBadPrivateKey}

\* flow f made no call to the coordinator or the wallet and no callback ran
NothingReached(f) ==
    /\ fl[f].log = <<>>
    /\ ~swaps[f].created
    /\ fl[f].resp = NoInvoiceResponse
    /\ fl[f].rec = NoRecord
    /\ ~fl[f].issued

\* C13: requestInvoice called with amountSats zero or negative fails with
\* "Amount must be greater than zero" and createLightningInvoice is never
\* called for it: no swap is created and no record is returned.
C13_NonPositiveAmount ==
    \A f \in Flows :
        (fl[f].api = "requestInvoice" /\ fl[f].amountSats <= 0) =>
            /\ fl[f].pc = "failed"
            /\ fl[f].err = ErrAmountZero
            /\ NothingReached(f)

C13_Witness ==
    \E f, g \in Flows :
        /\ fl[f].api = "requestInvoice" /\ fl[f].amountSats = 0
        /\ fl[f].pc = "failed" /\ fl[f].err = ErrAmountZero
        /\ fl[g].api = "requestInvoice" /\ fl[g].amountSats < 0
        /\ fl[g].pc = "failed" /\ fl[g].err = ErrAmountZero

\* C14 as stated: requestInvoice lets only positive integers through; every other
\* amount, a positive one that is not a whole number included, fails with
\* "Amount must be greater than zero" before the coordinator is called.
C14_OnlyPositiveIntegers ==
    (apc \in {"threw", "awaitInvoice"} /\ ~IsPositiveInteger(ain)) =>
        /\ apc = "threw"
        /\ aout = ErrAmountZero

\* what lines 191-192 do instead: they refuse zero, NaN and the negative
\* numbers, and every positive number reaches createLightningInvoice
C14_RefusesOnlyNonPositive ==
    apc \in {"threw", "awaitInvoice"} =>
        /\ apc = "threw" <=> (IsNaN(ain) \/ ain[1] <= 0)
        /\ apc = "threw" => aout = ErrAmountZero
        /\ IsPositiveInteger(ain) => apc = "awaitInvoice"

\* the amount 3/2 reaches createLightningInvoice
C14_Witness ==
    /\ apc = "awaitInvoice"
    /\ ain = <<3, 2>>
    /\ aout = NoError

\* the coordinator's answer lacks one of the four fields the record needs
Incomplete(r) == r.expiry = 0 \/ r.invoice = "" \/ r.preimage = "" \/ ~r.hasSwap

\* C15: requestInvoice returns a record only when the coordinator's answer has a
\* non-zero expiry, an invoice, a preimage and a pending swap; when one is
\* missing it throws the matching "Invalid ... in result" error and returns
\* nothing: no record, no image, no callback, no wait.
C15_IncompleteResult ==
    \A f \in Flows :
        /\ (Answered(f) /\ Incomplete(fl[f].resp)) =>
              /\ fl[f].pc = "failed"
              /\ fl[f].err \in InvalidSwapResult \ {ErrAmountResult}
              /\ fl[f].resp.expiry = 0 <=> fl[f].err = ErrExpiry
              /\ (fl[f].resp.expiry # 0 /\ fl[f].resp.invoice = "") <=> fl[f].err = ErrInvoice
              /\ fl[f].err = ErrPendingSwap => fl[f].resp.preimage # ""
              /\ fl[f].rec = NoRecord
              /\ ~fl[f].issued
              /\ fl[f].shown = NoRecord
              /\ fl[f].log = <<"createLightningInvoice">>
        /\ fl[f].rec # NoRecord =>
              /\ Answered(f)
              /\ ~Incomplete(fl[f].resp)
              /\ fl[f].rec.expiry = fl[f].resp.expiry /\ fl[f].rec.expiry # 0
              /\ fl[f].rec.invoice = fl[f].resp.invoice /\ fl[f].rec.invoice # ""
              /\ fl[f].rec.preimage = fl[f].resp.preimage /\ fl[f].rec.preimage # ""
              /\ fl[f].rec.pendingSwap # NullHandle

C15_Witness ==
    \E f, g \in Flows :
        /\ Answered(f) /\ fl[f].api = "requestInvoice"
        /\ fl[f].resp.preimage = "" /\ fl[f].resp.expiry # 0 /\ fl[f].resp.invoice # ""
        /\ fl[f].resp.hasSwap
        /\ fl[f].err = ErrPreimage
        /\ Answered(g) /\ fl[g].api = "requestPayment"
        /\ ~fl[g].resp.hasSwap /\ fl[g].resp.preimage # ""
        /\ fl[g].err = ErrPendingSwap

\* flow f never reached waitAndClaim, getBalance or sendBitcoin
NoSettlementStep(f) ==
    /\ Count(fl[f].log, "waitAndClaim") = 0
    /\ Count(fl[f].log, "getBalance") = 0
    /\ Count(fl[f].log, "sendBitcoin") = 0
    /\ fl[f].claimTxid = NoTxid
    /\ fl[f].claimed = 0
    /\ fl[f].send = NoSend
    /\ fl[f].sweepTxid = NoTxid
    /\ fl[f].txid = NoTxid

\* C16: waitForPayment called with a null pendingSwap throws "pendingSwap is
\* required" at once: waitAndClaim is not called, the balance is not read,
\* nothing is sent, and the step leaves the swaps and the wallet as they were.
C16_NullHandle ==
    /\ [](\A f \in Flows :
            (fl[f].api = "waitForPayment" /\ fl[f].pendingSwap = NullHandle) =>
                /\ fl[f].pc = "failed"
                /\ fl[f].err = ErrSwapRequired
                /\ NoSettlementStep(f))
    /\ [][\A f \in Flows :
            (fl'[f].err = ErrSwapRequired /\ fl[f].err # ErrSwapRequired) =>
                /\ fl[f].pc \in {"idle", "invoiceReturned"}
                /\ swaps' = swaps /\ balance' = balance /\ swept' = swept]_vars

\* a caller that dropped the handle of the invoice it was issued
C16_Witness ==
    \E f \in Flows :
        /\ fl[f].api = "waitForPayment"
        /\ fl[f].issued
        /\ fl[f].pendingSwap = NullHandle
        /\ fl[f].pc = "failed"
        /\ fl[f].err = ErrSwapRequired

\* waitAndClaim answered flow f (it did not reject) and gave no txid
ClaimedNothing(f) ==
    /\ Count(fl[f].log, "waitAndClaim") = 1
    /\ fl[f].pc # "awaitClaim"
    /\ fl[f].err # ErrClaim
    /\ fl[f].claimTxid = NoTxid

\* C17: when waitAndClaim resolves without a txid, waitForPayment throws
\* "Failed to receive coin"; getBalance and sendBitcoin are not called, no txid
\* is returned and, in requestPayment, onPayment is not called.
C17_ClaimWithoutTxid ==
    \A f \in Flows :
        /\ ClaimedNothing(f) =>
              /\ fl[f].pc = "failed"
              /\ fl[f].err = ErrReceive
              /\ Count(fl[f].log, "getBalance") = 0
              /\ Count(fl[f].log, "sendBitcoin") = 0
              /\ Count(fl[f].log, "onPayment") = 0
              /\ fl[f].log[Len(fl[f].log)] = "waitAndClaim"
              /\ fl[f].send = NoSend
              /\ fl[f].sweepTxid = NoTxid
              /\ fl[f].txid = NoTxid
              /\ fl[f].paid = NoTxid
        /\ Count(fl[f].log, "getBalance") > 0 => fl[f].claimTxid # NoTxid

C17_Witness ==
    \E f, g \in Flows :
        /\ ClaimedNothing(f) /\ fl[f].api = "waitForPayment"
        /\ fl[f].err = ErrReceive
        /\ ClaimedNothing(g) /\ fl[g].api = "requestPayment"
        /\ fl[g].err = ErrReceive
        /\ balance > 0

\* getBalance answered flow f (it did not reject) with nothing available
FoundNothing(f) ==
    /\ Count(fl[f].log, "getBalance") > 0
    /\ fl[f].pc # "awaitBalance"
    /\ fl[f].err # ErrGetBalance
    /\ fl[f].available = 0

\* C18: when the claim gave a txid and getBalance then reports nothing
\* available, waitForPayment throws "No balance available to send"; sendBitcoin
\* is not called, no txid is returned, onPayment is not called, and the flow
\* stops there: neither the claim nor the balance read is made again.
C18_NoBalance ==
    /\ [](\A f \in Flows :
            FoundNothing(f) =>
                /\ fl[f].pc = "failed"
                /\ fl[f].err = ErrNoBalance
                /\ fl[f].claimTxid # NoTxid
                /\ Count(fl[f].log, "waitAndClaim") = 1
                /\ Count(fl[f].log, "getBalance") = 1
                /\ Count(fl[f].log, "sendBitcoin") = 0
                /\ Count(fl[f].log, "onPayment") = 0
                /\ fl[f].send = NoSend
                /\ fl[f].sweepTxid = NoTxid
                /\ fl[f].txid = NoTxid
                /\ fl[f].paid = NoTxid)
    /\ [][\A f \in Flows : fl[f].err = ErrNoBalance => fl'[f] = fl[f]]_vars

\* a lone requestPayment whose swap paid nothing into an empty wallet
C18_Witness ==
    \E f \in Flows :
        /\ fl[f].api = "requestPayment"
        /\ FoundNothing(f)
        /\ fl[f].claimTxid = <<"claim", f>>
        /\ fl[f].err = ErrNoBalance
        /\ \A g \in Flows \ {f} : fl[g].api = "none"

\* the errors of a failed issuance, claim, balance read or sweep
StageErrors ==
    InvalidSwapResult
    \cup {ErrAmountZero, ErrCreateInvoice, ErrSwapRequired, ErrClaim, ErrReceive,
          ErrGetBalance, ErrNoBalance, ErrSend}

\* C19: onPayment is called at most once per requestPayment and only by
\* requestPayment, after onInvoice and after the claim gave a txid, the balance
\* was read and sendBitcoin to the instance's arkAddress resolved; a flow whose
\* issuance, claim, balance read or sweep failed never calls it.
C19_OnPaymentLast ==
    \A f \in Flows :
        /\ Count(fl[f].log, "onPayment") <= 1
        /\ fl[f].api # "requestPayment" => Count(fl[f].log, "onPayment") = 0
        /\ Count(fl[f].log, "onPayment") = 1 =>
              /\ fl[f].log = <<"createLightningInvoice", "onInvoice", "waitAndClaim",
                               "getBalance", "sendBitcoin", "onPayment">>
              /\ fl[f].shown # NoRecord
              /\ fl[f].claimTxid # NoTxid
              /\ fl[f].sweepTxid # NoTxid
              /\ fl[f].send.address = ic.arkAddress
              /\ fl[f].paid # NoTxid
              /\ fl[f].err \in {NoError, ErrCallback}
        /\ (fl[f].pc = "failed" /\ fl[f].err \in StageErrors) =>
              /\ Count(fl[f].log, "onPayment") = 0
              /\ fl[f].paid = NoTxid
        /\ fl[f].pc \in {"awaitInvoice", "awaitClaim", "awaitBalance", "awaitSend"} =>
              Count(fl[f].log, "onPayment") = 0

\* one requestPayment reached onPayment, another lost its sweep and did not
C19_Witness ==
    \E f, g \in Flows :
        /\ fl[f].api = "requestPayment" /\ fl[f].pc = "done"
        /\ Count(fl[f].log, "onPayment") = 1
        /\ fl[g].api = "requestPayment" /\ fl[g].pc = "failed"
        /\ fl[g].err = ErrSend
        /\ Count(fl[g].log, "onPayment") = 0

\* C20: requestPayment calls onInvoice exactly once for an invoice that
\* requestInvoice returned and never otherwise; the call comes right after
\* createLightningInvoice, with every check of the result passed, and before
\* waitAndClaim; its argument carries the amount, expiry, invoice, preimage and
\* image of that record and no pendingSwap. requestInvoice and waitForPayment
\* on their own never call it.
C20_OnInvoiceOnce ==
    \A f \in Flows :
        /\ Count(fl[f].log, "onInvoice") <= 1
        /\ fl[f].api # "requestPayment" =>
              Count(fl[f].log, "onInvoice") = 0 /\ fl[f].shown = NoRecord
        /\ fl[f].api = "requestPayment" =>
              (Count(fl[f].log, "onInvoice") = 1 <=> fl[f].rec # NoRecord)
        /\ Count(fl[f].log, "onInvoice") = 0 => fl[f].shown = NoRecord
        /\ Count(fl[f].log, "onInvoice") = 1 =>
              /\ Len(fl[f].log) >= 2
              /\ fl[f].log[1] = "createLightningInvoice"
              /\ fl[f].log[2] = "onInvoice"
              /\ \A i \in DOMAIN fl[f].log : fl[f].log[i] = "waitAndClaim" => i = 3
              /\ ~Incomplete(fl[f].resp)
              /\ fl[f].resp.amount <= fl[f].amountSats
              /\ fl[f].shown.amount = fl[f].resp.amount
              /\ fl[f].shown.expiry = fl[f].resp.expiry
              /\ fl[f].shown.invoice = fl[f].resp.invoice
              /\ fl[f].shown.preimage = fl[f].resp.preimage
              /\ fl[f].shown.qrImage = fl[f].rec.qrImage
              /\ fl[f].shown.qrImage # NoImage
              /\ fl[f].shown.pendingSwap = NullHandle
              /\ fl[f].rec.pendingSwap # NullHandle
        /\ (fl[f].pc = "failed" /\ Count(fl[f].log, "onInvoice") = 0) =>
              Count(fl[f].log, "waitAndClaim") = 0 \/ fl[f].api # "requestPayment"

\* one requestPayment has shown its invoice and waits for the claim, another
\* was refused its invoice and showed nothing
C20_Witness ==
    \E f, g \in Flows :
        /\ fl[f].api = "requestPayment" /\ fl[f].pc = "awaitClaim"
        /\ fl[f].log = <<"createLightningInvoice", "onInvoice", "waitAndClaim">>
        /\ fl[f].shown.invoice = "lnbc1"
        /\ fl[g].api = "requestPayment" /\ fl[g].pc = "failed"
        /\ fl[g].err \in InvalidSwapResult
        /\ fl[g].log = <<"createLightningInvoice">>

\* flow f is a requestPayment called without one of its callbacks
CallbackMissing(f) ==
    /\ fl[f].api = "requestPayment"
    /\ fl[f].onInvoice = "absent" \/ fl[f].onPayment = "absent"

C21_ZeroAmount ==
    \E f \in Flows :
        /\ CallbackMissing(f)
        /\ fl[f].amountSats = 0
        /\ fl[f].err = ErrAmountUndefined

\* flow f is a requestPayment that was given both callbacks
Sugar(f) ==
    /\ fl[f].api = "requestPayment"
    /\ fl[f].onInvoice # "absent"
    /\ fl[f].onPayment # "absent"

\* flow g is a caller of requestInvoice that, when a record came back, went on
\* to waitForPayment with the handle of that record
Composed(g) ==
    \/ fl[g].api = "requestInvoice"
    \/ /\ fl[g].api = "waitForPayment"
       /\ fl[g].issued
       /\ fl[g].pendingSwap = fl[g].rec.pendingSwap

\* the caller of flow f has its result: a return or a rejection
Finished(f) ==
    /\ fl[f].pc \in {"done", "failed"}
    /\ fl[f].api # "none"

\* the calls flow f made to the coordinator and the wallet, in order
CollabCalls(f) ==
    SelectSeq(fl[f].log, LAMBDA x : x \notin {"onInvoice", "onPayment"})

\* the specification's kind of an error
ErrorKind(e) ==
    IF e = NoError THEN "none"
    ELSE IF e \in {ErrAmountZero, ErrAmountUndefined} THEN "InvalidAmount"
    ELSE IF e \in InvalidSwapResult THEN "InvalidSwapResult"
    ELSE IF e = ErrCallback THEN "callback threw"
    ELSE e[1]

\* how flow f ended: returned or rejected, with which kind of error, and
\* whether the txid it produced is the one of its claim
Outcome(f) ==
    [returned |-> fl[f].pc = "done",
     kind |-> ErrorKind(fl[f].err),
     txid |-> IF fl[f].txid = NoTxid THEN "none"
              ELSE IF fl[f].txid = fl[f].claimTxid THEN "of the claim" ELSE "other"]

\* the collaborators behaved alike towards f and g: the same amount was asked,
\* and as far as both flows got, the answers were the same
Agree(f, g) ==
    /\ fl[f].amountSats = fl[g].amountSats
    /\ (fl[f].heard # <<>> /\ fl[g].heard # <<>>) => fl[f].resp = fl[g].resp
    /\ \A i \in DOMAIN fl[f].heard \cap DOMAIN fl[g].heard :
          /\ fl[f].heard[i] = fl[g].heard[i]
          /\ fl[f].heard[i] = "balance" => (fl[f].available = 0 <=> fl[g].available = 0)

C22_CallbackThrows ==
    \E f, g \in Flows :
        /\ Sugar(f) /\ fl[f].onInvoice = "throws" /\ Finished(f)
        /\ Composed(g) /\ Finished(g) /\ Agree(f, g)
        /\ CollabCalls(f) = <<"createLightningInvoice">>
        /\ Len(CollabCalls(g)) > 1

\* what went wrong first in flow f, told from what it was called with and what
\* its collaborators answered; NoError when nothing did. Callbacks aside.
FirstFailure(f) ==
    LET b == fl[f]
        h == b.heard
        inv == b.api \in {"requestInvoice", "requestPayment"} \/ b.issued
        wait == IF inv THEN 1 ELSE 0
    IN  IF b.api = "requestPayment" /\ b.amountSats = 0 THEN ErrAmountUndefined
        ELSE IF b.api = "requestPayment" /\ b.onInvoice = "absent" THEN ErrOnInvoice
        ELSE IF b.api = "requestPayment" /\ b.onPayment = "absent" THEN ErrOnPayment
        ELSE IF inv /\ b.amountSats <= 0 THEN ErrAmountZero
        ELSE IF inv /\ Len(h) >= 1 /\ h[1] = "rejected" THEN ErrCreateInvoice
        ELSE IF inv /\ Len(h) >= 1 /\ b.resp.expiry = 0 THEN ErrExpiry
        ELSE IF inv /\ Len(h) >= 1 /\ b.resp.invoice = "" THEN ErrInvoice
        ELSE IF inv /\ Len(h) >= 1 /\ b.resp.preimage = "" THEN ErrPreimage
        ELSE IF inv /\ Len(h) >= 1 /\ ~b.resp.hasSwap THEN ErrPendingSwap
        ELSE IF inv /\ Len(h) >= 1 /\ b.resp.amount > b.amountSats THEN ErrAmountResult
        ELSE IF b.api = "waitForPayment" /\ b.pendingSwap = NullHandle THEN ErrSwapRequired
        ELSE IF Len(h) >= wait + 1 /\ h[wait + 1] = "rejected" THEN ErrClaim
        ELSE IF Len(h) >= wait + 1 /\ h[wait + 1] = "notxid" THEN ErrReceive
        ELSE IF Len(h) >= wait + 2 /\ h[wait + 2] = "rejected" THEN ErrGetBalance
        ELSE IF Len(h) >= wait + 2 /\ b.available = 0 THEN ErrNoBalance
        ELSE IF Len(h) >= wait + 3 /\ h[wait + 3] = "rejected" THEN ErrSend
        ELSE NoError

\* a callback of flow f threw
CallbackThrew(f) ==
    \/ fl[f].onInvoice = "throws" /\ Count(fl[f].log, "onInvoice") = 1
    \/ fl[f].onPayment = "throws" /\ Count(fl[f].log, "onPayment") = 1

\* C23: whatever goes wrong inside requestInvoice or waitForPayment (an invalid
\* amount, an invalid result, a missing handle, a claim without txid, no
\* balance, a collaborator that rejects) is what the caller gets: the call
\* rejects with that very error, requestPayment rejects with it too, no txid
\* is returned and onPayment is not called; a call that returned met no
\* failure, and a call that rejected never turns into one that returned.
C23_FailuresPropagate ==
    /\ [](\A f \in Flows :
            /\ (fl[f].api # "none" /\ FirstFailure(f) # NoError) =>
                  /\ fl[f].pc = "failed"
                  /\ fl[f].err = FirstFailure(f)
                  /\ fl[f].txid = NoTxid
                  /\ fl[f].paid = NoTxid
                  /\ Count(fl[f].log, "onPayment") = 0
            /\ fl[f].pc \in {"done", "invoiceReturned"} =>
                  FirstFailure(f) = NoError /\ fl[f].err = NoError
            /\ (fl[f].pc = "failed" /\ FirstFailure(f) = NoError) =>
                  CallbackThrew(f) /\ fl[f].err = ErrCallback)
    /\ [][\A f \in Flows : fl[f].pc = "failed" => fl'[f] = fl[f]]_vars

\* a requestPayment that a rejecting getBalance made reject, beside a
\* waitForPayment that a rejecting waitAndClaim made reject
C23_Witness ==
    \E f, g \in Flows :
        /\ fl[f].api = "requestPayment" /\ fl[f].pc = "failed"
        /\ fl[f].heard = <<"result", "claimed", "rejected">>
        /\ fl[f].err = ErrGetBalance
        /\ fl[g].api = "waitForPayment" /\ fl[g].pc = "failed"
        /\ fl[g].heard = <<"result", "rejected">>
        /\ fl[g].err = ErrClaim

\* C24: waitForPayment has no deadline of its own. While its waitAndClaim is
\* pending the flow has neither returned nor failed, and the only step that
\* moves it is the coordinator's answer to waitAndClaim: no step of the
\* Orchestrator times the wait out or cancels it.
C24_NoDeadline ==
    /\ [](\A f \in Flows :
            fl[f].pc = "awaitClaim" =>
                /\ fl[f].err = NoError
                /\ fl[f].txid = NoTxid
                /\ fl[f].paid = NoTxid
                /\ fl[f].log[Len(fl[f].log)] = "waitAndClaim"
                /\ Count(fl[f].log, "getBalance") = 0
                /\ ENABLED WaitAndClaimReturns(f, "claimed"))
    /\ [][\A f \in Flows :
            (fl[f].pc = "awaitClaim" /\ fl'[f] # fl[f]) =>
                /\ fl'[f].heard = Append(fl[f].heard, fl'[f].heard[Len(fl'[f].heard)])
                /\ fl'[f].heard[Len(fl'[f].heard)] \in ClaimOutcomes
                /\ fl'[f].pc \in {"awaitBalance", "failed"}]_vars

\* one flow has settled and returned while another, started before it, still
\* waits for its claim
C24_Witness ==
    \E f, g \in Flows :
        /\ f < g
        /\ fl[f].pc = "awaitClaim"
        /\ fl[g].api = "requestPayment" /\ fl[g].pc = "done"

\* C25: requestInvoice leaves nothing in the instance. No step of a flow
\* changes the instance, which has no field for an invoice; a record, once
\* returned, and the swap it names are never replaced by a later or an
\* interleaved requestInvoice; waitForPayment waits on the handle it is passed
\* and its claim touches that swap alone.
C25_NothingRetained ==
    /\ [](/\ DOMAIN ic = {"exists", "arkAddress", "arkServerUrl", "boltzApiUrl", "network",
                           "privateKey", "signerPubkey"}
          /\ \A f \in Flows :
                fl[f].rec # NoRecord =>
                    /\ swaps[fl[f].rec.pendingSwap].created
                    /\ swaps[fl[f].rec.pendingSwap].amount = fl[f].rec.amount
                    /\ \A g \in Flows \ {f} :
                          fl[g].rec # NoRecord =>
                              fl[g].rec.pendingSwap # fl[f].rec.pendingSwap)
    /\ [][/\ \A f \in Flows : fl'[f] # fl[f] => ic' = ic /\ calls' = calls
          /\ \A f \in Flows : fl[f].rec # NoRecord => fl'[f].rec = fl[f].rec
          /\ \A h \in Flows :
                swaps[h].created =>
                    swaps'[h].created /\ swaps'[h].amount = swaps[h].amount
          /\ \A f \in Flows, h \in {NullHandle} \cup Flows :
                WaitForPaymentCall(f, h) => fl'[f].pendingSwap = h
          /\ \A f \in Flows :
                (fl[f].pc = "awaitClaim" /\ fl'[f] # fl[f]) =>
                    \A h \in Flows \ {fl[f].pendingSwap} : swaps'[h] = swaps[h]]_vars

\* two invoices were issued, and the holder of one claimed the other by
\* passing its handle, leaving its own swap untouched
C25_Witness ==
    \E f, g \in Flows :
        /\ f # g
        /\ fl[f].rec # NoRecord /\ fl[g].rec # NoRecord
        /\ fl[f].rec.pendingSwap = f /\ fl[g].rec.pendingSwap = g
        /\ fl[f].api = "waitForPayment"
        /\ fl[f].pendingSwap = g
        /\ fl[f].claimTxid = <<"claim", g>>
        /\ swaps[f].txid = NoTxid

\* C26: the info endpoint is read and the address is verified once per
\* instance, inside create: an instance exists only after exactly one read and
\* one verification, and no step of requestInvoice, waitForPayment or
\* requestPayment reads the endpoint or verifies again.
C26_VerifiedOnce ==
    /\ [](/\ calls.fetch <= 1 /\ calls.verify <= 1
          /\ ic.exists => calls.fetch = 1 /\ calls.verify = 1 /\ cpc = "done"
          /\ (\E f \in Flows : fl[f].api # "none") => ic.exists)
    /\ [][/\ ic.exists => calls' = calls /\ cres' = cres /\ cpc' = cpc
          /\ (\E f \in Flows : fl'[f] # fl[f]) => calls' = calls /\ cres' = cres]_vars

\* every kind of call has run to its end on one instance, verified once
C26_Witness ==
    /\ ic.exists
    /\ calls.fetch = 1 /\ calls.verify = 1
    /\ \E f, g \in Flows :
          /\ fl[f].api = "requestPayment" /\ fl[f].pc = "done"
          /\ fl[g].api = "waitForPayment" /\ fl[g].issued /\ fl[g].pc = "failed"

\* C27: a record that requestInvoice returns carries the coordinator's answer
\* as it came: its amount, expiry, invoice and preimage are those of the
\* answer (the amount granted, not the amount asked), its pendingSwap is the
\* swap that answer created, and its qrImage is a non-empty image tag.
C27_RecordAsAnswered ==
    \A f \in Flows :
        fl[f].rec # NoRecord =>
            /\ Answered(f)
            /\ fl[f].rec.amount = fl[f].resp.amount
            /\ fl[f].rec.expiry = fl[f].resp.expiry
            /\ fl[f].rec.invoice = fl[f].resp.invoice
            /\ fl[f].rec.preimage = fl[f].resp.preimage
            /\ fl[f].resp.hasSwap
            /\ fl[f].rec.pendingSwap \in Flows
            /\ swaps[fl[f].rec.pendingSwap].created
            /\ swaps[fl[f].rec.pendingSwap].amount = fl[f].resp.amount
            /\ fl[f].rec.qrImage # NoImage
            /\ fl[f].rec.qrImage[1] = "<img src="
            /\ fl[f].rec.qrImage[5] = " alt='QR Code' />"
            /\ fl[f].rec.qrImage[4][3] = fl[f].resp.invoice

\* one record grants what was asked, another grants less than was asked
C27_Witness ==
    \E f, g \in Flows :
        /\ fl[f].api = "requestInvoice" /\ fl[f].pc = "invoiceReturned"
        /\ fl[f].amountSats = MaxAmount
        /\ fl[f].rec.amount = MaxAmount
        /\ fl[g].rec # NoRecord
        /\ fl[g].rec.amount < fl[g].amountSats

\* C28 as stated: the qrImage of a record is an image tag whose source is a
\* data:image/gif;base64 URI holding the QR code of the invoice, and making it
\* changes nothing outside the record.
C28_DataUriNoEffect ==
    /\ \A f \in Flows :
          fl[f].rec # NoRecord =>
              /\ fl[f].rec.qrImage[1] = "<img src="
              /\ fl[f].rec.qrImage[2] = "data:image/gif;base64,"
              /\ fl[f].rec.qrImage[4] = <<"GIF", "QR", fl[f].rec.invoice>>
    /\ blobs = 0

\* what lines 210-212 do instead: the GIF of the QR code is put in a Blob, the
\* Blob is registered with URL.createObjectURL, and the source of the tag is the
\* blob: URL that came back; every record adds one registration and none is
\* ever revoked.
C28_ObjectUrl ==
    /\ [](/\ \A f \in Flows :
                fl[f].rec # NoRecord =>
                    /\ fl[f].rec.qrImage[1] = "<img src="
                    /\ fl[f].rec.qrImage[2] = "blob:"
                    /\ fl[f].rec.qrImage[3] \in 1..NumFlows
                    /\ fl[f].rec.qrImage[4] = <<"GIF", "QR", fl[f].rec.invoice>>
          /\ blobs = Cardinality({f \in Flows : fl[f].rec # NoRecord}))
    /\ [][blobs' >= blobs]_vars

\* every flow got a record, and as many object URLs are left registered
C28_Witness ==
    /\ blobs = NumFlows
    /\ \A f \in Flows :
          /\ fl[f].rec # NoRecord
          /\ fl[f].rec.qrImage[2] = "blob:"
          /\ fl[f].pc \in {"done", "failed", "invoiceReturned"}

\* the flows that called waitAndClaim on handle h
Claimers(h) ==
    {f \in Flows : fl[f].pendingSwap = h /\ Count(fl[f].log, "waitAndClaim") > 0}

\* C29 as stated: a handle is claimed at most once: waitAndClaim is called at
\* most once on it, at most one call gets a claim txid for it, and a
\* waitForPayment on a handle already claimed neither calls waitAndClaim nor
\* sweeps.
C29_OneClaimPerHandle ==
    \A h \in Flows :
        /\ Cardinality(Claimers(h)) <= 1
        /\ Cardinality({f \in Claimers(h) : fl[f].claimTxid # NoTxid}) <= 1
        /\ \A f \in Claimers(h) :
              (fl[f].claimTxid # NoTxid /\ fl[f].claimed = 0 /\ swaps[h].amount > 0) =>
                  Count(fl[f].log, "sendBitcoin") = 0

\* what waitForPayment does instead: it keeps no account of handles, so every
\* call with a handle calls waitAndClaim on it, claimed before or not, and goes
\* on to the balance read and the sweep whenever a txid comes back.
C29_ClaimsWhenever ==
    \A f \in Flows :
        /\ (fl[f].api \in {"waitForPayment", "requestPayment"}
            /\ fl[f].pendingSwap # NullHandle) =>
              Count(fl[f].log, "waitAndClaim") = 1
        /\ (fl[f].claimTxid # NoTxid /\ fl[f].pc # "awaitClaim") =>
              Count(fl[f].log, "getBalance") = 1

\* the same handle was passed to two calls: waitAndClaim ran on it twice and
\* gave the same txid twice, and the second call, which claimed nothing new,
\* swept the wallet and returned that txid
C29_Witness ==
    \E f, g \in Flows, h \in Flows :
        /\ f # g
        /\ Claimers(h) = {f, g}
        /\ fl[f].claimTxid = <<"claim", h>> /\ fl[f].claimed > 0
        /\ fl[g].claimTxid = <<"claim", h>> /\ fl[g].claimed = 0
        /\ Count(fl[g].log, "sendBitcoin") = 1
        /\ Settled(g)
        /\ fl[g].txid = fl[f].claimTxid

\* the errors create rejects with at one of its validation steps
ValidationErrors ==
    {ErrUrlRequired, ErrBoltzRequired, ErrAddressRequired, ErrFetchRejected, ErrNoNetwork,
     ErrNoSigner, ErrInvalidAddress, ErrNotBelongs}
    \cup {<<ErrFetchPrefix, t>> : t \in {"Not Found", "Bad Gateway"}}

\* the operator identity was fetched, is complete, and the address create was
\* called with is bound to it
IdentityVerified ==
    /\ calls.fetch = 1
    /\ cpc # "fetching"
    /\ ~cres.rejected /\ cres.ok
    /\ cres.network # ""
    /\ cres.signerPubkey # <<>>
    /\ calls.verify = 1
    /\ DecodeOk(copts.arkAddress)
    /\ ContainsOperatorKey(cres.signerPubkey, copts.arkAddress)

\* C30: in create the swap provider, the signing identity, the wallet and the
\* coordinator are made only once the operator identity was fetched, found
\* complete and the address found bound to it, and the coordinator only once
\* the wallet is open; when create rejects at a validation step no wallet was
\* opened, no coordinator made and no instance exists.
C30_MadeAfterVerification ==
    /\ (calls.provider > 0 \/ calls.identity > 0 \/ calls.wallet > 0
        \/ calls.lightning > 0 \/ ic.exists) => IdentityVerified
    /\ calls.identity > 0 => calls.provider = 1
    /\ calls.wallet > 0 => calls.identity = 1
    /\ calls.lightning > 0 => calls.wallet = 1 /\ cpc = "done"
    /\ ic.exists <=> calls.lightning = 1
    /\ (cpc = "failed" /\ cerr \in ValidationErrors) =>
          /\ calls.provider = 0 /\ calls.identity = 0
          /\ calls.wallet = 0 /\ calls.lightning = 0
          /\ ~ic.exists
          /\ opened = 0 /\ balance = 0
    /\ cpc = "failed" => ~ic.exists /\ calls.lightning = 0

\* create rejected an address that decodes but is not the operator's, after
\* one read and one verification and with nothing made
C30_Witness ==
    /\ cpc = "failed"
    /\ cerr = ErrNotBelongs
    /\ copts.arkAddress = AddrB
    /\ copts.privateKey = GoodKey
    /\ calls = [NoCalls EXCEPT !.fetch = 1, !.verify = 1]
    /\ ~ic.exists

\* create went through: everything was made, once, after the verification
C30_AllMade ==
    /\ cpc = "done"
    /\ IdentityVerified
    /\ calls = [fetch |-> 1, verify |-> 1, provider |-> 1, identity |-> 1, wallet |-> 1,
                lightning |-> 1]

\* flow f is inside the settlement of waitForPayment: between its call of
\* waitAndClaim and the answer of sendBitcoin
Settling(f) == fl[f].pc \in {"awaitClaim", "awaitBalance", "awaitSend"}

\* no two settlements are in flight together
OneAtATime == Cardinality({f \in Flows : Settling(f)}) <= 1

\* C31: when the settlements on an instance run one at a time, what
\* sendBitcoin is asked to send is the wallet's whole balance at the moment of
\* sending, and with what was swept before it makes up everything the wallet
\* was opened with and everything claimed so far; and a sendBitcoin that is
\* asked for the whole balance and succeeds leaves the wallet at zero with all
\* of that at the recipient.
C31_SerializedSweepsAll ==
    /\ [](OneAtATime) =>
          [](\A f \in Flows :
                fl[f].pc = "awaitSend" =>
                    /\ fl[f].send.amount = balance
                    /\ fl[f].send.address = ic.arkAddress
                    /\ swept + fl[f].send.amount = opened + ClaimedUpTo(NumFlows))
    /\ [][\A f \in Flows :
            (fl[f].pc = "awaitSend" /\ fl[f].send.amount = balance /\ fl'[f].txid # NoTxid) =>
                /\ balance' = 0
                /\ swept' = opened + ClaimedUpTo(NumFlows)
                /\ swept' = swept + fl[f].send.amount]_vars

\* two payments settled one after the other: the first sweep carried what the
\* wallet was opened with and the first claim, the second sweep the second
\* claim, and nothing is left in the wallet
C31_Witness ==
    \E f, g \in Flows :
        /\ f # g
        /\ opened = MaxInitBalance
        /\ fl[f].pc = "done" /\ fl[g].pc = "done"
        /\ Settled(f) /\ Settled(g)
        /\ fl[f].claimed > 0 /\ fl[g].claimed > 0
        /\ fl[f].send.amount = opened + fl[f].claimed
        /\ fl[g].send.amount = fl[g].claimed
        /\ balance = 0
        /\ swept = opened + fl[f].claimed + fl[g].claimed

\* what the restriction to one settlement at a time rules out: a sendBitcoin
\* about to be asked for an amount that is not the wallet's balance
C31_Raced ==
    \E f \in Flows : fl[f].pc = "awaitSend" /\ fl[f].send.amount # balance

\* sendBitcoin rejected the sweep of flow f: the answer that followed the
\* balance read was a rejection
SendFailed(f) ==
    \E i \in DOMAIN fl[f].heard :
        i > 1 /\ fl[f].heard[i - 1] = "balance" /\ fl[f].heard[i] = "rejected"

\* C32: when sendBitcoin rejects after a claim that succeeded, waitForPayment
\* (and a requestPayment around it) rejects with that failure, returns no txid
\* and does not call onPayment; sendBitcoin was called once and neither it nor
\* anything else is called by that flow again; the rejection moves nothing:
\* the wallet holds what it held and the recipient got nothing from this flow,
\* so that a flow alone on its instance leaves the claimed funds in the wallet.
C32_SweepFailureLeavesFunds ==
    /\ [](\A f \in Flows :
            SendFailed(f) =>
                /\ fl[f].claimTxid # NoTxid
                /\ fl[f].pc = "failed"
                /\ fl[f].err = ErrSend
                /\ fl[f].txid = NoTxid
                /\ fl[f].sweepTxid = NoTxid
                /\ fl[f].paid = NoTxid
                /\ Count(fl[f].log, "onPayment") = 0
                /\ Count(fl[f].log, "sendBitcoin") = 1
                /\ fl[f].log[Len(fl[f].log)] = "sendBitcoin"
                /\ (\A g \in Flows \ {f} : fl[g].api = "none") =>
                      /\ swept = 0
                      /\ balance = opened + fl[f].claimed
                      /\ balance = fl[f].send.amount)
    /\ [][\A f \in Flows :
            /\ (fl[f].pc = "awaitSend" /\ fl'[f].heard = Append(fl[f].heard, "rejected")) =>
                  balance' = balance /\ swept' = swept /\ swaps' = swaps
            /\ SendFailed(f) => fl'[f] = fl[f]]_vars

\* a requestPayment whose claim paid into the wallet and whose sweep was
\* rejected: the first flow of the instance and the only one so far
C32_Witness ==
    \E f \in Flows :
        /\ fl[f].api = "requestPayment"
        /\ fl[f].onPayment = "returns"
        /\ fl[f].heard = <<"result", "claimed", "balance", "rejected">>
        /\ fl[f].claimed > 0
        /\ balance = opened + fl[f].claimed
        /\ swept = 0
        /\ \A g \in Flows \ {f} : fl[g].api = "none"

\* onInvoice was called by the requestPayment of flow f and threw
OnInvoiceThrew(f) ==
    /\ fl[f].api = "requestPayment"
    /\ fl[f].onInvoice = "throws"
    /\ Count(fl[f].log, "onInvoice") = 1

\* C33: when onInvoice throws, requestPayment rejects with what it threw and
\* that was its last step: waitAndClaim, getBalance, sendBitcoin and onPayment
\* are never called by the flow and no txid is returned. The swap the
\* coordinator created for the invoice stays as it was made: its handle went to
\* nobody, so it stays unclaimed, and the flow has paid nothing into the
\* wallet and swept nothing out of it.
C33_OnInvoiceThrows ==
    /\ [](\A f \in Flows :
            OnInvoiceThrew(f) =>
                /\ fl[f].pc = "failed"
                /\ fl[f].err = ErrCallback
                /\ fl[f].log = <<"createLightningInvoice", "onInvoice">>
                /\ fl[f].heard = <<"result">>
                /\ fl[f].shown # NoRecord
                /\ fl[f].pendingSwap = NullHandle
                /\ fl[f].claimTxid = NoTxid /\ fl[f].claimed = 0
                /\ fl[f].send = NoSend /\ fl[f].sweepTxid = NoTxid
                /\ fl[f].txid = NoTxid /\ fl[f].paid = NoTxid
                /\ ~fl[f].issued
                /\ swaps[fl[f].rec.pendingSwap].created
                /\ swaps[fl[f].rec.pendingSwap].txid = NoTxid
                /\ Claimers(fl[f].rec.pendingSwap) = {})
    /\ [][\A f \in Flows :
            OnInvoiceThrew(f) =>
                /\ fl'[f] = fl[f]
                /\ swaps'[fl[f].rec.pendingSwap] = swaps[fl[f].rec.pendingSwap]]_vars

\* onInvoice threw on an invoice of a positive amount, and the swap made for
\* it is still unclaimed after another payment was claimed and swept
C33_Witness ==
    \E f, g \in Flows :
        /\ f # g
        /\ OnInvoiceThrew(f)
        /\ fl[f].onPayment = "returns"
        /\ fl[f].rec.amount > 0
        /\ swaps[fl[f].rec.pendingSwap].amount = fl[f].rec.amount
        /\ swaps[fl[f].rec.pendingSwap].txid = NoTxid
        /\ Settled(g) /\ fl[g].pc = "done" /\ fl[g].claimed > 0
        /\ balance = 0

\* flow f is a requestPayment called with a positive amount and both callbacks
PaymentAsked(f) ==
    /\ fl[f].api = "requestPayment"
    /\ fl[f].amountSats > 0
    /\ fl[f].onInvoice # "absent" /\ fl[f].onPayment # "absent"

\* the requestPayment of flow f is over: onPayment was called or it rejected
PaymentOver(f) == Count(fl[f].log, "onPayment") = 1 \/ fl[f].pc = "failed"

\* C34: when every collaborator answers in the end, a requestPayment called
\* with a positive amount and both callbacks comes to its end: it calls
\* onPayment or rejects with an error. Until then it is suspended only at an
\* await of a collaborator (createLightningInvoice, waitAndClaim, getBalance,
\* sendBitcoin) whose answer resumes it, never in a step of its own; and a call
\* that returned has called onPayment.
C34_PaymentTerminates ==
    /\ [](\A f \in Flows :
            PaymentAsked(f) =>
                /\ fl[f].pc \in {"awaitInvoice", "awaitClaim", "awaitBalance", "awaitSend",
                                 "done", "failed"}
                /\ fl[f].pc = "awaitInvoice" =>
                      \A r \in InvoiceResponses : ENABLED CreateInvoiceReturns(f, r)
                /\ fl[f].pc = "awaitClaim" =>
                      \A out \in ClaimOutcomes : ENABLED WaitAndClaimReturns(f, out)
                /\ fl[f].pc = "awaitBalance" =>
                      \A ok \in BOOLEAN : ENABLED GetBalanceReturns(f, ok)
                /\ fl[f].pc = "awaitSend" => ENABLED SendBitcoinReturns(f, FALSE)
                /\ fl[f].pc = "done" => Count(fl[f].log, "onPayment") = 1
                /\ fl[f].pc = "failed" => fl[f].err # NoError)
    /\ \A f \in Flows : PaymentAsked(f) ~> PaymentOver(f)

\* one requestPayment went all the way to onPayment, and another, answered at
\* every await, ended with the error of its balance check
C34_Witness ==
    \E f, g \in Flows :
        /\ PaymentAsked(f) /\ PaymentAsked(g)
        /\ fl[f].pc = "done"
        /\ fl[f].heard = <<"result", "claimed", "balance", "sent">>
        /\ fl[f].paid # NoTxid
        /\ fl[g].pc = "failed"
        /\ fl[g].heard = <<"result", "claimed", "balance">>
        /\ fl[g].err = ErrNoBalance

====
